---- MODULE Spec2Model ----
(***************************************************************************)
(* AirType: hand-gesture typing.  A model of src/App.tsx (the frame loop   *)
(* onResults, the click effect, handleKeyPress and the autocomplete        *)
(* button), src/services/geminiService.ts (correctText, autocompleteText)  *)
(* and src/components/VirtualKeyboard.tsx (ROWS, updateRects).             *)
(*                                                                         *)
(* Scheduling: the browser runs one callback at a time.  React batches the *)
(* state updates of one callback into one render and runs the effects      *)
(* whose dependencies changed before the next callback, so every action    *)
(* below is one callback followed by its render and its effects.           *)
(*                                                                         *)
(* Numbers: the code computes in floating point; the model computes the    *)
(* same expressions exactly, in fixed point.  Landmark coordinates and the *)
(* two landmark thresholds are in units of 1/LmScale, the smoothing factor *)
(* in units of 1/SmoothingDen, screen positions in units of 1/PxScale px.  *)
(***************************************************************************)
EXTENDS Integers, Sequences, FiniteSets, Bags, TLC

VARIABLES
  appState,        \* App.tsx:28  AppState
  text,            \* App.tsx:27  the text buffer, a sequence of characters
  cursor,          \* App.tsx:29  displayed cursor, Null or [x, y]
  isPinching,      \* App.tsx:30  "clicking"
  gestureMode,     \* App.tsx:31  "move" | "click" | "wait"
  hoveredKey,      \* App.tsx:32
  activeKey,       \* App.tsx:33
  keyRects,        \* App.tsx:34  keyId -> rectangle, as Object.keys orders it
  isProcessingAI,  \* App.tsx:35
  settings,        \* App.tsx:41
  cursorRef,       \* App.tsx:52  the smoothing accumulator
  prevPinchRef,    \* App.tsx:328 the edge detector's flag
  apiKey,          \* geminiService.ts:15  TRUE iff an API key is configured
  fixPending,      \* bag of correctText requests in flight (the text sent)
  completePending, \* bag of autocompleteText requests in flight
  last,            \* history: what the last step was and what it emitted
  run              \* history: the current (or most recent) run of clicking

vars == <<appState, text, cursor, isPinching, gestureMode, hoveredKey,
          activeKey, keyRects, isProcessingAI, settings, cursorRef,
          prevPinchRef, apiKey, fixPending, completePending, last, run>>

\* JS null, for the string-valued state (hoveredKey, activeKey)
Null == "null"
\* JS null, for the point-valued state (cursor, cursorRef.current)
NoPoint == [some |-> FALSE, x |-> 0, y |-> 0]
Point(px, py) == [some |-> TRUE, x |-> px, y |-> py]

(***************************************************************************)
(* Bounds of the model.                                                    *)
(***************************************************************************)
\* longest text buffer explored
MaxLen == 2
\* most requests of one kind in flight at once
MaxInFlight == 2
\* smoothing updates an accumulator can take before its position would need
\* a finer resolution than 1/PxScale px
MaxSmooth == 2
\* longest run of clicking frames whose length is still counted
MaxRun == 4

(***************************************************************************)
(* Units and program constants.                                            *)
(***************************************************************************)
\* landmark coordinates are normalised to [0,1]; 1/200 is the finest step of
\* a landmark threshold (the pinch slider, step 0.005)
LmScale == 200
\* the smoothing slider moves in steps of 0.05 = 1/20
SmoothingDen == 20
\* 0.04, in units of 1/LmScale
DEFAULT_PINCH_THRESHOLD == 8
\* 0.4, in units of 1/SmoothingDen
DEFAULT_CURSOR_SMOOTHING == 8
\* 0.0
DEFAULT_EXTENSION_THRESHOLD == 0
\* window.innerWidth and window.innerHeight, in px
InnerWidth == 400
InnerHeight == 200

RECURSIVE Pow(_, _)
Pow(b, n) == IF n = 0 THEN 1 ELSE b * Pow(b, n - 1)

\* screen positions are kept in units of 1/PxScale px
PxScale == Pow(SmoothingDen, MaxSmooth)

Px(n) == n * PxScale

DefaultSettings ==
  [cursorSmoothing    |-> DEFAULT_CURSOR_SMOOTHING,
   pinchThreshold     |-> DEFAULT_PINCH_THRESHOLD,
   extensionThreshold |-> DEFAULT_EXTENSION_THRESHOLD]

(***************************************************************************)
(* Gesture classifier (onResults, App.tsx:219-275).  A landmark set lm is  *)
(* a function from the landmark indices the code reads to [x, y].          *)
(***************************************************************************)
LandmarkIdx == {4, 6, 8, 10, 12, 14, 16, 18, 20}

isExtended(lm, s, tipIdx, pipIdx) ==
  lm[tipIdx].y < lm[pipIdx].y - s.extensionThreshold

indexUp(lm, s)  == isExtended(lm, s, 8, 6)
middleUp(lm, s) == isExtended(lm, s, 12, 10)
ringUp(lm, s)   == isExtended(lm, s, 16, 14)
pinkyUp(lm, s)  == isExtended(lm, s, 20, 18)

extendedFingers(lm, s) ==
    (IF indexUp(lm, s) THEN 1 ELSE 0) + (IF middleUp(lm, s) THEN 1 ELSE 0)
  + (IF ringUp(lm, s) THEN 1 ELSE 0) + (IF pinkyUp(lm, s) THEN 1 ELSE 0)

\* the square of distance = Math.sqrt(dx * dx + dy * dy)
distance2(lm) ==
  LET dx == lm[8].x - lm[4].x
      dy == lm[8].y - lm[4].y
  IN  dx * dx + dy * dy

\* distance < pinchThreshold; the thresholds the slider offers are positive,
\* so the comparison is the comparison of the squares
isPinchGesture(lm, s) ==
  s.pinchThreshold > 0 /\ distance2(lm) < s.pinchThreshold * s.pinchThreshold

isTwoFingerGesture(lm, s) ==
  indexUp(lm, s) /\ middleUp(lm, s) /\ ~ringUp(lm, s) /\ ~pinkyUp(lm, s)

\* isOpenHand asking for all four fingers
isOpenHandAllFour(lm, s) == extendedFingers(lm, s) >= 4

isOpenHand(lm, s) == extendedFingers(lm, s) >= 3

\* modeLogic testing the open hand before, and regardless of, the pinch
modeLogicOpenFirst(lm, s) ==
  IF isOpenHand(lm, s)
    THEN [mode |-> "move", shouldUpdateCursor |-> TRUE,
          shouldTriggerClick |-> FALSE]
  ELSE IF isPinchGesture(lm, s) \/ isTwoFingerGesture(lm, s)
    THEN [mode |-> "click", shouldUpdateCursor |-> FALSE,
          shouldTriggerClick |-> TRUE]
  ELSE [mode |-> "wait", shouldUpdateCursor |-> FALSE,
        shouldTriggerClick |-> FALSE]

\* the mode logic: [mode, shouldUpdateCursor, shouldTriggerClick]
modeLogic(lm, s) ==
  IF isOpenHand(lm, s) /\ ~isPinchGesture(lm, s)
    THEN [mode |-> "move", shouldUpdateCursor |-> TRUE,
          shouldTriggerClick |-> FALSE]
  ELSE IF isPinchGesture(lm, s) \/ isTwoFingerGesture(lm, s)
    THEN [mode |-> "click", shouldUpdateCursor |-> FALSE,
          shouldTriggerClick |-> TRUE]
  ELSE [mode |-> "wait", shouldUpdateCursor |-> FALSE,
        shouldTriggerClick |-> FALSE]

\* x = (1 - indexTip.x) * innerWidth, y = indexTip.y * innerHeight
rawCursor(lm) ==
  Point(((LmScale - lm[8].x) * InnerWidth * PxScale) \div LmScale,
        (lm[8].y * InnerHeight * PxScale) \div LmScale)

(***************************************************************************)
(* Cursor filter (App.tsx:277-290).                                        *)
(***************************************************************************)
\* smoothStep weighting the old position by the factor instead of the new
smoothStepFromRaw(c, r, a) == r + ((c - r) * a) \div SmoothingDen

\* c + (r - c) * smoothFactor
smoothStep(c, r, a) == c + ((r - c) * a) \div SmoothingDen

\* cursorUpdate following the hand in every mode
cursorUpdateAlways(acc, raw, s, shouldUpdateCursor) ==
  IF acc = NoPoint THEN raw
  ELSE Point(smoothStep(acc.x, raw.x, s.cursorSmoothing),
             smoothStep(acc.y, raw.y, s.cursorSmoothing))

\* the accumulator after the cursor-update block
cursorUpdate(acc, raw, s, shouldUpdateCursor) ==
  IF ~shouldUpdateCursor THEN acc
  ELSE IF acc = NoPoint THEN raw
  ELSE Point(smoothStep(acc.x, raw.x, s.cursorSmoothing),
             smoothStep(acc.y, raw.y, s.cursorSmoothing))

\* the update is computed exactly iff both products divide evenly
Representable(acc, raw, s, shouldUpdateCursor) ==
  (shouldUpdateCursor /\ acc # NoPoint) =>
     /\ ((raw.x - acc.x) * s.cursorSmoothing) % SmoothingDen = 0
     /\ ((raw.y - acc.y) * s.cursorSmoothing) % SmoothingDen = 0

\* smoothedCursor = cursorRef.current ? {...cursorRef.current} : {x, y}
smoothedCursor(acc, raw) == IF acc # NoPoint THEN acc ELSE raw

(***************************************************************************)
(* Keyboard (VirtualKeyboard.tsx:11-42).  The model keeps ten of the keys  *)
(* of ROWS, one of each kind the dispatcher distinguishes; a label is the  *)
(* sequence of its characters (BS and SHIFT stand for the two glyphs).     *)
(***************************************************************************)
Key(id, label) == [id |-> id, label |-> label]

ROWS ==
  << << Key("1", <<"1">>), Key("0", <<"0">>), Key("backspace", <<"BS">>) >>,
     << Key("q", <<"Q">>) >>,
     << Key("a", <<"A">>),
        Key("enter", <<"E", "N", "T", "E", "R">>) >>,
     << Key("shift", <<"SHIFT">>), Key("clear", <<"C", "L", "R">>) >>,
     << Key("space", <<"S", "P", "A", "C", "E">>),
        Key("ai-fix", <<"*", " ", "A", "I", " ", "F", "I", "X">>) >> >>

RECURSIVE Flatten(_)
Flatten(rows) ==
  IF rows = <<>> THEN <<>> ELSE Head(rows) \o Flatten(Tail(rows))

\* the key elements of the document, in document order
KeyElements == Flatten(ROWS)

KeyIds == {KeyElements[i].id : i \in DOMAIN KeyElements}

\* document.querySelector('[data-key-id=...]')?.textContent, <<>> if no element
keyLabel(keyId) ==
  IF keyId \in KeyIds
    THEN (CHOOSE k \in {KeyElements[i] : i \in DOMAIN KeyElements} :
            k.id = keyId).label
    ELSE <<>>

\* toLowerCase leaving every character as it is
toLowerCaseKeepsCase(ch) == ch

\* String.prototype.toLowerCase on the characters the labels use
toLowerCase(ch) ==
  CASE ch = "A" -> "a"
    [] ch = "Q" -> "q"
    [] OTHER    -> ch

(***************************************************************************)
(* Key layout (VirtualKeyboard.tsx:48-73, App.tsx:546) and hit testing     *)
(* (App.tsx:293-309).  An object keyed by key id is the sequence of its    *)
(* entries [id, left, right, top, bottom] in the order Object.keys and the *)
(* spread syntax enumerate them.                                           *)
(***************************************************************************)
Rect(id, l, t, w, h) ==
  [id |-> id, left |-> Px(l), right |-> Px(l + w),
   top |-> Px(t), bottom |-> Px(t + h)]

\* array-index property names, which an object enumerates first, ascending
IndexKeys == <<"0", "1", "2", "3", "4", "5", "6", "7", "8", "9">>

IsIndexKey(id) == \E i \in DOMAIN IndexKeys : IndexKeys[i] = id

HasKey(obj, id) == \E i \in DOMAIN obj : obj[i].id = id

\* the entries of obj, given in insertion order, in enumeration order:
\* array-index names first, ascending, then the other names as inserted
Enumerated(obj) ==
  LET ints == SelectSeq(IndexKeys, LAMBDA id : HasKey(obj, id))
  IN  [i \in DOMAIN ints |->
         obj[CHOOSE j \in DOMAIN obj : obj[j].id = ints[i]]]
        \o SelectSeq(obj, LAMBDA e : ~IsIndexKey(e.id))

\* the value of property id of obj
Property(obj, id) == obj[CHOOSE i \in DOMAIN obj : obj[i].id = id]

\* Spread forgetting prev: setKeyRects(rects)
SpreadReplaces(prev, rects) == rects

\* {...prev, ...rects}: a property of prev keeps its place and takes the
\* value rects gives it, if any; the properties only rects has follow
Spread(prev, rects) ==
  [i \in DOMAIN prev |->
     IF HasKey(rects, prev[i].id) THEN Property(rects, prev[i].id)
     ELSE prev[i]]
    \o SelectSeq(rects, LAMBDA e : ~HasKey(prev, e.id))

\* setKeyRects(prev => ({...prev, ...rects}))
mergeKeyRects(prev, rects) == Enumerated(Spread(prev, rects))

\* Inside with open bounds
InsideOpen(c, rect) ==
  /\ c.x > rect.left /\ c.x < rect.right
  /\ c.y > rect.top  /\ c.y < rect.bottom

Inside(c, rect) ==
  /\ c.x >= rect.left /\ c.x <= rect.right
  /\ c.y >= rect.top  /\ c.y <= rect.bottom

\* the hit-testing loop: the first key of Object.keys(keyRects) that contains c
hitTest(c, rects) ==
  LET hits == {i \in DOMAIN rects : Inside(c, rects[i])}
  IN  IF hits = {} THEN Null
      ELSE rects[CHOOSE i \in hits : \A j \in hits : i <= j].id

(***************************************************************************)
(* Text service (geminiService.ts).  An outcome of the remote call is      *)
(* [ok, text]: the response text, or ok = FALSE when the call throws.      *)
(***************************************************************************)
IsSpace(ch) == ch \in {" ", "\n"}

RECURSIVE trimStart(_)
trimStart(t) ==
  IF t # <<>> /\ IsSpace(Head(t)) THEN trimStart(Tail(t)) ELSE t

RECURSIVE trimEnd(_)
trimEnd(t) ==
  IF t # <<>> /\ IsSpace(t[Len(t)])
    THEN trimEnd(SubSeq(t, 1, Len(t) - 1)) ELSE t

\* String.prototype.trim
trim(t) == trimEnd(trimStart(t))

\* what correctText(sent) resolves to once the remote call ended with outcome
correctText(sent, outcome) ==
  IF outcome.ok /\ trim(outcome.text) # <<>> THEN trim(outcome.text)
  ELSE sent

\* what autocompleteText(sent) resolves to once the remote call ended
autocompleteText(sent, outcome) ==
  IF outcome.ok THEN trim(outcome.text) ELSE <<>>

(***************************************************************************)
(* Action dispatcher (handleKeyPress, App.tsx:152-190).  st is the part of *)
(* the state a press can change: [text, fix, proc, over], over recording   *)
(* that a bound of the model was passed.                                   *)
(***************************************************************************)
\* sliceLast removing the first character instead of the last
sliceFirst(prev) == IF prev = <<>> THEN prev ELSE Tail(prev)

\* prev.slice(0, -1)
sliceLast(prev) ==
  IF prev = <<>> THEN prev ELSE SubSeq(prev, 1, Len(prev) - 1)

\* prev + ch
append(st, ch) ==
  IF Len(st.text) >= MaxLen THEN [st EXCEPT !.over = TRUE]
  ELSE [st EXCEPT !.text = Append(st.text, ch)]

\* aiFix without its test of text.length
aiFixAnyText(closure, st) ==
  IF apiKey
    THEN IF BagCardinality(st.fix) >= MaxInFlight
           THEN [st EXCEPT !.over = TRUE]
           ELSE [st EXCEPT !.fix = st.fix (+) SetToBag({closure}),
                           !.proc = TRUE]
    ELSE [st EXCEPT !.text = closure, !.proc = FALSE]

\* case 'ai-fix'; closure is the text handleKeyPress was created with
aiFix(closure, st) ==
  IF Len(closure) > 0
    THEN IF apiKey
           THEN IF BagCardinality(st.fix) >= MaxInFlight
                  THEN [st EXCEPT !.over = TRUE]
                  ELSE [st EXCEPT !.fix = st.fix (+) SetToBag({closure}),
                                  !.proc = TRUE]
           \* without a key correctText resolves at once, with its argument
           ELSE [st EXCEPT !.text = closure, !.proc = FALSE]
    ELSE st

handleKeyPress(keyId, closure, st) ==
  CASE keyId = "backspace" -> [st EXCEPT !.text = sliceLast(st.text)]
    [] keyId = "space"     -> append(st, " ")
    [] keyId = "enter"     -> append(st, "\n")
    [] keyId = "clear"     -> [st EXCEPT !.text = <<>>]
    [] keyId = "ai-fix"    -> aiFix(closure, st)
    [] keyId = "shift"     -> st
    [] OTHER ->
         LET label == keyLabel(keyId)
         IN  IF Len(label) = 1 THEN append(st, toLowerCase(label[1]))
             ELSE st

(***************************************************************************)
(* Click edge detector (the effect of App.tsx:328-339).                    *)
(***************************************************************************)
\* clickEffect without its test of prevPinchRef: a press whenever the effect
\* runs while pinching over a key
clickEffectNoEdge(pinching, hovered, prev) ==
  IF pinching /\ hovered # Null
    THEN [press |-> hovered, release |-> FALSE, setActive |-> TRUE,
          active |-> hovered, prev |-> pinching]
  ELSE IF ~pinching /\ prev
    THEN [press |-> Null, release |-> TRUE, setActive |-> TRUE,
          active |-> Null, prev |-> pinching]
  ELSE [press |-> Null, release |-> FALSE, setActive |-> FALSE,
        active |-> Null, prev |-> pinching]

\* clickEffect recording the new isPinching only in the branches that fire
clickEffectStalePrev(pinching, hovered, prev) ==
  IF pinching /\ ~prev /\ hovered # Null
    THEN [press |-> hovered, release |-> FALSE, setActive |-> TRUE,
          active |-> hovered, prev |-> prev]
  ELSE IF ~pinching /\ prev
    THEN [press |-> Null, release |-> TRUE, setActive |-> TRUE,
          active |-> Null, prev |-> pinching]
  ELSE [press |-> Null, release |-> FALSE, setActive |-> FALSE,
        active |-> Null, prev |-> pinching]

\* clickEffect releasing only while a key is hovered
clickEffectHoverRelease(pinching, hovered, prev) ==
  IF pinching /\ ~prev /\ hovered # Null
    THEN [press |-> hovered, release |-> FALSE, setActive |-> TRUE,
          active |-> hovered, prev |-> pinching]
  ELSE IF ~pinching /\ prev /\ hovered # Null
    THEN [press |-> Null, release |-> TRUE, setActive |-> TRUE,
          active |-> Null, prev |-> pinching]
  ELSE [press |-> Null, release |-> FALSE, setActive |-> FALSE,
        active |-> Null, prev |-> pinching]

\* clickEffect pressing when the gesture ends instead of when it starts
clickEffectOnRelease(pinching, hovered, prev) ==
  IF ~pinching /\ prev /\ hovered # Null
    THEN [press |-> hovered, release |-> TRUE, setActive |-> TRUE,
          active |-> Null, prev |-> pinching]
  ELSE IF ~pinching /\ prev
    THEN [press |-> Null, release |-> TRUE, setActive |-> TRUE,
          active |-> Null, prev |-> pinching]
  ELSE [press |-> Null, release |-> FALSE, setActive |-> FALSE,
        active |-> Null, prev |-> pinching]

\* clickEffect leaving the active key set when the gesture ends
clickEffectKeepsActive(pinching, hovered, prev) ==
  IF pinching /\ ~prev /\ hovered # Null
    THEN [press |-> hovered, release |-> FALSE, setActive |-> TRUE,
          active |-> hovered, prev |-> pinching]
  ELSE IF ~pinching /\ prev
    THEN [press |-> Null, release |-> TRUE, setActive |-> FALSE,
          active |-> Null, prev |-> pinching]
  ELSE [press |-> Null, release |-> FALSE, setActive |-> FALSE,
        active |-> Null, prev |-> pinching]

\* one run of the effect body
clickEffect(pinching, hovered, prev) ==
  IF pinching /\ ~prev /\ hovered # Null
    THEN [press |-> hovered, release |-> FALSE, setActive |-> TRUE,
          active |-> hovered, prev |-> pinching]
  ELSE IF ~pinching /\ prev
    THEN [press |-> Null, release |-> TRUE, setActive |-> TRUE,
          active |-> Null, prev |-> pinching]
  ELSE [press |-> Null, release |-> FALSE, setActive |-> FALSE,
        active |-> Null, prev |-> pinching]

\* the effect does not run: its dependencies did not change
effectSkipped(prev) ==
  [press |-> Null, release |-> FALSE, setActive |-> FALSE,
   active |-> Null, prev |-> prev]

\* The render after a callback and the effects after it.  pinching, hovered
\* and st are the state the callback left.  The effect runs when isPinching,
\* hoveredKey or handleKeyPress (re-created when text changed) changed; a
\* press that changes the text re-creates handleKeyPress, so the effect runs
\* once more.
commit(pinching, hovered, st) ==
  LET e1 == IF pinching # isPinching \/ hovered # hoveredKey
               \/ st.text # text
              THEN clickEffect(pinching, hovered, prevPinchRef)
              ELSE effectSkipped(prevPinchRef)
      s1 == IF e1.press # Null THEN handleKeyPress(e1.press, st.text, st)
            ELSE st
      e2 == IF s1.text # st.text
              THEN clickEffect(pinching, hovered, e1.prev)
              ELSE effectSkipped(e1.prev)
      s2 == IF e2.press # Null THEN handleKeyPress(e2.press, s1.text, s1)
            ELSE s1
      a1 == IF e1.setActive THEN e1.active ELSE activeKey
  IN  [st       |-> s2,
       prev     |-> e2.prev,
       active   |-> IF e2.setActive THEN e2.active ELSE a1,
       presses  |-> (IF e1.press # Null THEN <<e1.press>> ELSE <<>>)
                      \o (IF e2.press # Null THEN <<e2.press>> ELSE <<>>),
       releases |-> (IF e1.release THEN 1 ELSE 0)
                      + (IF e2.release THEN 1 ELSE 0)]

\* the part of the state a press can change, as a callback finds it
PressState == [text |-> text, fix |-> fixPending, proc |-> isProcessingAI,
               over |-> FALSE]

(***************************************************************************)
(* Inputs.                                                                 *)
(***************************************************************************)
NoLandmarks == [i \in LandmarkIdx |-> [x |-> 0, y |-> 0]]

\* results of a frame in which no hand was detected
NoHand == [multiHandLandmarks |-> <<>>]

\* results of a frame with one hand
OneHand(lm) == [multiHandLandmarks |-> <<lm>>]

\* A hand whose index tip is at (ix, iy) and whose thumb tip is (dx, dy) away;
\* a finger in up has its tip bend above its PIP joint, the others bend below
Hand(ix, iy, dx, dy, up, bend) ==
  LET Pip(f) == [x |-> ix, y |-> IF f \in up THEN iy + bend ELSE iy - bend]
      Tip    == [x |-> ix, y |-> iy]
  IN  [i \in LandmarkIdx |->
         CASE i = 4  -> [x |-> ix + dx, y |-> iy + dy]
           [] i = 6  -> Pip("index")
           [] i = 10 -> Pip("middle")
           [] i = 14 -> Pip("ring")
           [] i = 18 -> Pip("pinky")
           [] OTHER  -> Tip]

Fingers == {"index", "middle", "ring", "pinky"}

\* Measured rectangles: the keys on a grid, 100 px by 40 px each with gaps
\* between them, the whole moved right by dx px (a resize moves the centred
\* keyboard)
GridCell(id) ==
  CASE id = "1"         -> [col |-> 0, row |-> 0]
    [] id = "0"         -> [col |-> 3, row |-> 0]
    [] id = "backspace" -> [col |-> 1, row |-> 0]
    [] id = "q"         -> [col |-> 2, row |-> 0]
    [] id = "a"         -> [col |-> 0, row |-> 1]
    [] id = "ai-fix"    -> [col |-> 1, row |-> 1]
    [] id = "enter"     -> [col |-> 2, row |-> 1]
    [] id = "shift"     -> [col |-> 0, row |-> 2]
    [] id = "clear"     -> [col |-> 1, row |-> 2]
    [] id = "space"     -> [col |-> 2, row |-> 2]

\* newRects of updateRects: one entry per key element, in document order
Measure(dx) ==
  [i \in DOMAIN KeyElements |->
     LET id == KeyElements[i].id
     IN  Rect(id, 20 + 120 * GridCell(id).col + dx,
              50 + 50 * GridCell(id).row, 100, 40)]

\* the place of key element k in ROWS: its row and its index in the row
RowOf(k) == CHOOSE i \in DOMAIN ROWS : k <= Len(Flatten(SubSeq(ROWS, 1, i)))
IndexInRow(k) == k - Len(Flatten(SubSeq(ROWS, 1, RowOf(k) - 1)))

\* newRects of a layout whose keys abut: key j of row i is 100 px by 40 px
\* at (100 * (j - 1), 50 + 40 * (i - 1)), so that neighbours share an edge
MeasureAbutting ==
  [k \in DOMAIN KeyElements |->
     Rect(KeyElements[k].id, 100 * (IndexInRow(k) - 1),
          50 + 40 * (RowOf(k) - 1), 100, 40)]

(***************************************************************************)
(* History.                                                                *)
(***************************************************************************)
\* the record of a step, before the step fills in what it did: the frame's
\* landmarks, whether its hand came back (the frame before had none, and the
\* accumulator was initialized), the press and release events emitted, the
\* request resolved, the rectangles a rebuild measured
StepOf(op) ==
  [op |-> op, hand |-> FALSE, back |-> FALSE, lm |-> NoLandmarks,
   measured |-> <<>>,
   presses |-> <<>>, releases |-> 0,
   sent |-> <<>>, ret |-> <<>>, ok |-> FALSE]

EventsOf(c) ==
  [i \in 1 .. Len(c.presses) |-> "press"]
    \o [i \in 1 .. c.releases |-> "release"]

FirstN(q, n) == IF Len(q) <= n THEN q ELSE SubSeq(q, 1, n)

\* the run of clicking after a step that left isPinching = pinching
RunAfter(pinching, hovered, c) ==
  IF pinching /\ ~isPinching
    THEN [len |-> 1, first |-> hovered,
          events |-> FirstN(EventsOf(c), MaxRun + 1)]
    ELSE [len    |-> IF pinching /\ run.len < MaxRun THEN run.len + 1
                     ELSE run.len,
          first  |-> run.first,
          events |-> FirstN(run.events \o EventsOf(c), MaxRun + 1)]

\* the run after a step that is no frame
RunSame(c) ==
  [run EXCEPT !.events = FirstN(run.events \o EventsOf(c), MaxRun + 1)]

(***************************************************************************)
(* Actions.                                                                *)
(***************************************************************************)
\* frameOutput whose no-hand branch forgets setHoveredKey(null)
frameOutputKeepsHover(results) ==
  IF Len(results.multiHandLandmarks) > 0
    THEN LET lm  == results.multiHandLandmarks[1]
             m   == modeLogic(lm, settings)
             raw == rawCursor(lm)
             acc == cursorUpdate(cursorRef, raw, settings,
                                 m.shouldUpdateCursor)
             sm  == smoothedCursor(acc, raw)
         IN  [mode |-> m.mode, pinching |-> m.shouldTriggerClick,
              acc |-> acc, cursor |-> sm,
              hovered |-> IF sm # NoPoint THEN hitTest(sm, keyRects)
                          ELSE hoveredKey,
              exact |-> Representable(cursorRef, raw, settings,
                                      m.shouldUpdateCursor)]
    ELSE [mode |-> "wait", pinching |-> FALSE, acc |-> cursorRef,
          cursor |-> NoPoint, hovered |-> hoveredKey, exact |-> TRUE]

\* frameOutput whose no-hand branch also resets the accumulator
frameOutputResetsAccumulator(results) ==
  IF Len(results.multiHandLandmarks) > 0
    THEN LET lm  == results.multiHandLandmarks[1]
             m   == modeLogic(lm, settings)
             raw == rawCursor(lm)
             acc == cursorUpdate(cursorRef, raw, settings,
                                 m.shouldUpdateCursor)
             sm  == smoothedCursor(acc, raw)
         IN  [mode |-> m.mode, pinching |-> m.shouldTriggerClick,
              acc |-> acc, cursor |-> sm,
              hovered |-> IF sm # NoPoint THEN hitTest(sm, keyRects)
                          ELSE hoveredKey,
              exact |-> Representable(cursorRef, raw, settings,
                                      m.shouldUpdateCursor)]
    ELSE [mode |-> "wait", pinching |-> FALSE, acc |-> NoPoint,
          cursor |-> NoPoint, hovered |-> Null, exact |-> TRUE]

\* what one call of onResults computes from the state it finds
frameOutput(results) ==
  IF Len(results.multiHandLandmarks) > 0
    THEN LET lm  == results.multiHandLandmarks[1]
             m   == modeLogic(lm, settings)
             raw == rawCursor(lm)
             acc == cursorUpdate(cursorRef, raw, settings,
                                 m.shouldUpdateCursor)
             sm  == smoothedCursor(acc, raw)
         IN  [mode |-> m.mode, pinching |-> m.shouldTriggerClick,
              acc |-> acc, cursor |-> sm,
              hovered |-> IF sm # NoPoint THEN hitTest(sm, keyRects)
                          ELSE hoveredKey,
              exact |-> Representable(cursorRef, raw, settings,
                                      m.shouldUpdateCursor)]
    ELSE [mode |-> "wait", pinching |-> FALSE, acc |-> cursorRef,
          cursor |-> NoPoint, hovered |-> Null, exact |-> TRUE]

\* the state after a callback that left st, and the effects after it
Committed(c) ==
  /\ ~c.st.over
  /\ text' = c.st.text
  /\ fixPending' = c.st.fix
  /\ isProcessingAI' = c.st.proc
  /\ prevPinchRef' = c.prev
  /\ activeKey' = c.active

\* a frame: hands.send delivers results to onResults (App.tsx:193-319)
onResults(results) ==
  /\ appState = "READY"
  /\ LET f == frameOutput(results)
         c == commit(f.pinching, f.hovered, PressState)
     IN  /\ f.exact
         /\ Committed(c)
         /\ gestureMode' = f.mode
         /\ cursorRef' = f.acc
         /\ cursor' = f.cursor
         /\ isPinching' = f.pinching
         /\ hoveredKey' = f.hovered
         /\ run' = RunAfter(f.pinching, f.hovered, c)
         /\ last' = [StepOf("frame") EXCEPT
                       !.hand = Len(results.multiHandLandmarks) > 0,
                       !.back = /\ Len(results.multiHandLandmarks) > 0
                                /\ last.op = "frame" /\ ~last.hand
                                /\ cursorRef # NoPoint,
                       !.lm = IF Len(results.multiHandLandmarks) > 0
                                THEN results.multiHandLandmarks[1]
                                ELSE NoLandmarks,
                       !.presses = c.presses, !.releases = c.releases]
  /\ UNCHANGED <<appState, keyRects, settings, apiKey, completePending>>

\* getUserMedia resolved and the video started (App.tsx:379-401).  The frame
\* loop is started on line 401, after READY was set on line 390, and the
\* first hands.send has the landmark model to load before it calls onResults,
\* so READY is rendered before the first frame: onResults requires READY.
setupHandsReady ==
  /\ appState = "LOADING"
  /\ appState' = "READY"
  /\ last' = StepOf("ready")
  /\ UNCHANGED <<text, cursor, isPinching, gestureMode, hoveredKey, activeKey,
                 keyRects, isProcessingAI, settings, cursorRef, prevPinchRef,
                 apiKey, fixPending, completePending, run>>

\* setupHandsFailed going on to line 390 after the rejection
setupHandsFailedGoesOn ==
  /\ appState = "LOADING"
  /\ appState' = "READY"
  /\ last' = StepOf("failed")
  /\ UNCHANGED <<text, cursor, isPinching, gestureMode, hoveredKey, activeKey,
                 keyRects, isProcessingAI, settings, cursorRef, prevPinchRef,
                 apiKey, fixPending, completePending, run>>

\* getUserMedia rejected (App.tsx:403-406)
setupHandsFailed ==
  /\ appState = "LOADING"
  /\ appState' = "ERROR"
  /\ last' = StepOf("failed")
  /\ UNCHANGED <<text, cursor, isPinching, gestureMode, hoveredKey, activeKey,
                 keyRects, isProcessingAI, settings, cursorRef, prevPinchRef,
                 apiKey, fixPending, completePending, run>>

\* updateRects on a resize or after the initial delay
\* (VirtualKeyboard.tsx:49-61); container is keyboardRef.current # null
updateRects(container, measured) ==
  /\ keyRects' = IF container
                   THEN mergeKeyRects(keyRects, Enumerated(measured))
                   ELSE keyRects
  /\ last' = [StepOf("rects") EXCEPT
                !.ok = container,
                !.measured = IF container THEN measured ELSE <<>>]
  /\ UNCHANGED <<appState, text, cursor, isPinching, gestureMode, hoveredKey,
                 activeKey, isProcessingAI, settings, cursorRef, prevPinchRef,
                 apiKey, fixPending, completePending, run>>

\* a calibration slider moved (App.tsx:684, 698, 712)
setSettings(s) ==
  /\ appState = "READY"
  /\ s # settings
  /\ settings' = s
  /\ last' = StepOf("settings")
  /\ UNCHANGED <<appState, text, cursor, isPinching, gestureMode, hoveredKey,
                 activeKey, keyRects, isProcessingAI, cursorRef, prevPinchRef,
                 apiKey, fixPending, completePending, run>>

\* the correctText call of an ai-fix press resolves (App.tsx:171-174)
resolveFix(sent, outcome) ==
  /\ BagIn(sent, fixPending)
  /\ LET fixed == correctText(sent, outcome)
         c == commit(isPinching, hoveredKey,
                     [PressState EXCEPT !.text = fixed,
                                        !.fix = fixPending (-) SetToBag({sent}),
                                        !.proc = FALSE])
     IN  /\ Committed(c)
         /\ run' = RunSame(c)
         /\ last' = [StepOf("fixed") EXCEPT
                       !.sent = sent, !.ret = fixed, !.ok = outcome.ok,
                       !.presses = c.presses, !.releases = c.releases]
  /\ UNCHANGED <<appState, cursor, isPinching, gestureMode, hoveredKey,
                 keyRects, settings, cursorRef, apiKey, completePending>>

\* the AI_AUTOCOMPLETE button is clicked (App.tsx:522-524); without a key
\* autocompleteText resolves at once with ""
autocompleteClick ==
  /\ appState = "READY"
  /\ apiKey => BagCardinality(completePending) < MaxInFlight
  /\ completePending' = IF apiKey THEN completePending (+) SetToBag({text})
                        ELSE completePending
  /\ isProcessingAI' = apiKey
  /\ last' = [StepOf("complete") EXCEPT !.sent = text]
  /\ UNCHANGED <<appState, text, cursor, isPinching, gestureMode, hoveredKey,
                 activeKey, keyRects, settings, cursorRef, prevPinchRef,
                 apiKey, fixPending, run>>

\* completedText replacing the buffer by the continuation
completedTextReplaces(prev, completed) ==
  IF completed # <<>> THEN completed ELSE prev

\* if (completed) setText(prev => prev + completed)
completedText(prev, completed) ==
  IF completed # <<>> THEN prev \o completed ELSE prev

\* the autocompleteText call of a click resolves (App.tsx:524-529)
resolveComplete(sent, outcome) ==
  /\ BagIn(sent, completePending)
  /\ LET completed == autocompleteText(sent, outcome)
         c == commit(isPinching, hoveredKey,
                     [PressState EXCEPT
                        !.text = completedText(text, completed),
                        !.proc = FALSE])
     IN  /\ Len(text \o completed) <= MaxLen
         /\ Committed(c)
         /\ completePending' = completePending (-) SetToBag({sent})
         /\ run' = RunSame(c)
         /\ last' = [StepOf("completed") EXCEPT
                       !.sent = sent, !.ret = completed, !.ok = outcome.ok,
                       !.presses = c.presses, !.releases = c.releases]
  /\ UNCHANGED <<appState, cursor, isPinching, gestureMode, hoveredKey,
                 keyRects, settings, cursorRef, apiKey>>

(***************************************************************************)
(* Initial state: the component after its first render and mount effects   *)
(* (the keyboard measured once, the click effect run once).                *)
(***************************************************************************)
InitWith(key, s) ==
  /\ appState = "LOADING"
  /\ text = <<>>
  /\ cursor = NoPoint
  /\ isPinching = FALSE
  /\ gestureMode = "wait"
  /\ hoveredKey = Null
  /\ activeKey = Null
  /\ keyRects = mergeKeyRects(<<>>, Enumerated(Measure(0)))
  /\ isProcessingAI = FALSE
  /\ settings = s
  /\ cursorRef = NoPoint
  /\ prevPinchRef = FALSE
  /\ apiKey = key
  /\ fixPending = EmptyBag
  /\ completePending = EmptyBag
  /\ last = StepOf("mount")
  /\ run = [len |-> 0, first |-> Null, events |-> <<>>]

(***************************************************************************)
(* Hands: index-tip positions and poses.                                   *)
(***************************************************************************)
\* index tip at (30 px, 120 px): over "a" when the keyboard is at dx = 0
Left == [ix |-> 185, iy |-> 120]
\* index tip at (390 px, 120 px): right of the keyboard at dx = 0
Right == [ix |-> 5, iy |-> 120]
\* index tip at (200 px, 20 px): above the keyboard
Above == [ix |-> 100, iy |-> 20]
\* index tip at (390 px, 10 px): above the keyboard
Corner == [ix |-> 5, iy |-> 10]
\* index tip at (190 px, 120 px): over "ai-fix" when the keyboard is at dx = 0
OverFix == [ix |-> 105, iy |-> 120]

\* [thumb offset, extended fingers]
OpenPose  == [dx |-> 40, up |-> Fingers]
PinchPose == [dx |-> 0, up |-> Fingers]
TwoPose   == [dx |-> 40, up |-> {"index", "middle"}]
FistPose  == [dx |-> 40, up |-> {}]

Posed(p, g) == OneHand(Hand(p.ix, p.iy, g.dx, 0, g.up, 20))

FramesOf(points, poses) ==
  {Posed(p, g) : p \in points, g \in poses} \cup {NoHand}

\* outcomes of the remote call
Outcome(ok, t) == [ok |-> ok, text |-> t]

(***************************************************************************)
(* Spec: the whole application.                                            *)
(***************************************************************************)
AllFrames ==
  FramesOf({Left, Right, Above, Corner, OverFix},
           {OpenPose, PinchPose, TwoPose, FistPose})
AllSettings ==
  {DefaultSettings, [DefaultSettings EXCEPT !.cursorSmoothing = 10]}
AllOutcomes == {Outcome(TRUE, <<"Z">>), Outcome(FALSE, <<>>)}

Init == \E key \in BOOLEAN : InitWith(key, DefaultSettings)

Frame == \E r \in AllFrames : onResults(r)
Rebuild ==
  \E container \in BOOLEAN, dx \in {0, 120} :
    updateRects(container, Measure(dx))
Calibrate == \E s \in AllSettings : setSettings(s)
FixResolves ==
  \E sent \in BagToSet(fixPending), o \in AllOutcomes : resolveFix(sent, o)
CompleteResolves ==
  \E sent \in BagToSet(completePending), o \in AllOutcomes :
    resolveComplete(sent, o)

Next ==
  \/ setupHandsReady
  \/ setupHandsFailed
  \/ Frame
  \/ Rebuild
  \/ Calibrate
  \/ FixResolves
  \/ autocompleteClick
  \/ CompleteResolves

Spec == Init /\ [][Next]_vars

(***************************************************************************)
(* SpecClick: the click edge detector and the dispatcher.  No API key is   *)
(* configured; the hand is at Left or Right, open or pinching or away, and *)
(* the keyboard is measured at dx = 0 or dx = 120.                         *)
(***************************************************************************)
ClickFrames == FramesOf({Left, Right}, {OpenPose, PinchPose})

InitClick == InitWith(FALSE, DefaultSettings)

FrameClick == \E r \in ClickFrames : onResults(r)
RebuildClick == \E dx \in {0, 120} : updateRects(TRUE, Measure(dx))

NextClick ==
  \/ setupHandsReady
  \/ FrameClick
  \/ RebuildClick

SpecClick == InitClick /\ [][NextClick]_vars

(***************************************************************************)
(* SpecCursor: the cursor filter.  The hand stays above the keyboard, at   *)
(* Above or Corner, in any of the four poses, and the smoothing slider is  *)
(* at 0.4 or 0.5.                                                          *)
(***************************************************************************)
CursorFrames ==
  FramesOf({Above, Corner}, {OpenPose, PinchPose, TwoPose, FistPose})

InitCursor == \E s \in AllSettings : InitWith(FALSE, s)

FrameCursor == \E r \in CursorFrames : onResults(r)

NextCursor ==
  \/ setupHandsReady
  \/ FrameCursor

SpecCursor == InitCursor /\ [][NextCursor]_vars

(***************************************************************************)
(* SpecClassify: the gesture classifier.  The hand is at Above with every  *)
(* set of fingers extended and the thumb tip at one of three offsets (at   *)
(* distance 0.04 of the index tip, just inside 0.04, far away); the pinch  *)
(* threshold is 0.04 or 0.1, the extension bias 0 or 0.05, which is how    *)
(* far the tips are above or below their PIP joints.                       *)
(***************************************************************************)
Thumbs == {[dx |-> 8, dy |-> 0], [dx |-> 5, dy |-> 6], [dx |-> 40, dy |-> 0]}

ClassifyFrames ==
  {OneHand(Hand(Above.ix, Above.iy, t.dx, t.dy, up, 10)) :
     t \in Thumbs, up \in SUBSET Fingers}
    \cup {NoHand}

ClassifySettings ==
  {DefaultSettings,
   [DefaultSettings EXCEPT !.pinchThreshold = 20],
   [DefaultSettings EXCEPT !.extensionThreshold = 10]}

InitClassify == InitWith(FALSE, DefaultSettings)

FrameClassify == \E r \in ClassifyFrames : onResults(r)
CalibrateClassify == \E s \in ClassifySettings : setSettings(s)

NextClassify ==
  \/ setupHandsReady
  \/ FrameClassify
  \/ CalibrateClassify

SpecClassify == InitClassify /\ [][NextClassify]_vars

(***************************************************************************)
(* SpecFix: ai-fix requests.  An API key is configured; the hand is at     *)
(* Left or OverFix, open or pinching, so that "a" and "ai-fix" are the     *)
(* keys it reaches; a request ends with the text "Z" or fails.             *)
(***************************************************************************)
FixFrames == {Posed(p, g) : p \in {Left, OverFix}, g \in {OpenPose, PinchPose}}

InitFix == InitWith(TRUE, DefaultSettings)

FrameFix == \E r \in FixFrames : onResults(r)

NextFix ==
  \/ setupHandsReady
  \/ FrameFix
  \/ FixResolves

SpecFix == InitFix /\ [][NextFix]_vars

(***************************************************************************)
(* SpecComplete: autocomplete requests.  An API key is configured; the     *)
(* hand is at Left, open or pinching, so that "a" is the key it types; the *)
(* button is clicked at any time; a request ends with the text "Z", with a *)
(* blank text, or fails.                                                   *)
(***************************************************************************)
CompleteFrames == {Posed(Left, OpenPose), Posed(Left, PinchPose)}
CompleteOutcomes == AllOutcomes \cup {Outcome(TRUE, <<" ">>)}

InitComplete == InitWith(TRUE, DefaultSettings)

FrameComplete == \E r \in CompleteFrames : onResults(r)
CompletionEnds ==
  \E sent \in BagToSet(completePending), o \in CompleteOutcomes :
    resolveComplete(sent, o)

NextComplete ==
  \/ setupHandsReady
  \/ FrameComplete
  \/ autocompleteClick
  \/ CompletionEnds

SpecComplete == InitComplete /\ [][NextComplete]_vars

(***************************************************************************)
(* SpecStartup: camera acquisition.  getUserMedia resolves or rejects; the *)
(* hand is at Left, open or pinching, or away; the window is resized at    *)
(* any time, whatever the application state.                               *)
(***************************************************************************)
StartupFrames == CompleteFrames \cup {NoHand}

InitStartup == InitWith(FALSE, DefaultSettings)

FrameStartup == \E r \in StartupFrames : onResults(r)

NextStartup ==
  \/ setupHandsReady
  \/ setupHandsFailed
  \/ FrameStartup
  \/ RebuildClick

SpecStartup == InitStartup /\ [][NextStartup]_vars

(***************************************************************************)
(* SpecSmooth: the smoothing arithmetic.  The open hand is at the screen   *)
(* origin (0 px, 0 px) or at (100 px, 0 px), where it is open or pinching, *)
(* or away; the smoothing slider is at 0.4, 0.5 or at its maximum 0.95.    *)
(***************************************************************************)
\* index tip at (0 px, 0 px)
Origin == [ix |-> 200, iy |-> 0]
\* index tip at (100 px, 0 px)
East == [ix |-> 150, iy |-> 0]

SmoothFrames ==
  {Posed(Origin, OpenPose), Posed(East, OpenPose), Posed(East, PinchPose),
   NoHand}
SmoothSettings ==
  {[DefaultSettings EXCEPT !.cursorSmoothing = a] : a \in {8, 10, 19}}

InitSmooth == \E s \in SmoothSettings : InitWith(FALSE, s)

FrameSmooth == \E r \in SmoothFrames : onResults(r)

NextSmooth ==
  \/ setupHandsReady
  \/ FrameSmooth

SpecSmooth == InitSmooth /\ [][NextSmooth]_vars

(***************************************************************************)
(* SpecHit: hit testing.  The keyboard is measured on the grid or with its *)
(* keys abutting; the open hand has its index tip on edges and corners of  *)
(* the rectangles of "1" and "0", one step outside, or above the keyboard, *)
(* or is away.                                                             *)
(***************************************************************************)
\* (20 px, 70 px): the left edge of "1" on the grid
OnLeftEdge == [ix |-> 190, iy |-> 70]
\* (18 px, 70 px): outside the grid, inside "1" when the keys abut
LeftOfEdge == [ix |-> 191, iy |-> 70]
\* (100 px, 70 px): inside "1" on the grid, the edge "1" and "0" share when
\* the keys abut
OnSharedEdge == [ix |-> 150, iy |-> 70]
\* (120 px, 90 px): the bottom right corner of "1" on the grid
OnCorner == [ix |-> 140, iy |-> 90]
\* (120 px, 50 px): the top right corner of "1" on the grid
OnTopEdge == [ix |-> 140, iy |-> 50]

HitFrames ==
  FramesOf({OnLeftEdge, LeftOfEdge, OnSharedEdge, OnCorner, OnTopEdge, Above},
           {OpenPose})

InitHit == InitWith(FALSE, DefaultSettings)

FrameHit == \E r \in HitFrames : onResults(r)
RebuildHit ==
  \E measured \in {Measure(0), MeasureAbutting} : updateRects(TRUE, measured)

NextHit ==
  \/ setupHandsReady
  \/ FrameHit
  \/ RebuildHit

SpecHit == InitHit /\ [][NextHit]_vars

(***************************************************************************)
(* SpecKeys: the dispatch table.  No API key is configured; the hand       *)
(* pinches with its index tip on the centre of a key of the grid, or is    *)
(* away.                                                                   *)
(***************************************************************************)
\* the index tip over the centre of key id on the grid at dx = 0 (the key in
\* the fourth column reaches beyond the window: over its visible part)
KeyPoint(id) ==
  [ix |-> IF GridCell(id).col = 3 THEN 5 ELSE 165 - 60 * GridCell(id).col,
   iy |-> 70 + 50 * GridCell(id).row]

KeysPressed == {"a", "1", "space", "enter", "clear", "shift", "backspace"}

KeysFrames == FramesOf({KeyPoint(id) : id \in KeysPressed}, {PinchPose})

InitKeys == InitWith(FALSE, DefaultSettings)

FrameKeys == \E r \in KeysFrames : onResults(r)

NextKeys ==
  \/ setupHandsReady
  \/ FrameKeys

SpecKeys == InitKeys /\ [][NextKeys]_vars

(***************************************************************************)
(* SpecBuffer: the steps that are no dispatch of a character key.  No API  *)
(* key is configured, so a correction or completion resolves within the    *)
(* step that asks for it (SpecFix and SpecComplete have the requests in    *)
(* flight); the hand is at Left, open, pinching or closed, or pinching at  *)
(* OverFix, or away; the window is resized; the autocomplete button is     *)
(* clicked.                                                                *)
(***************************************************************************)
BufferFrames ==
  FramesOf({Left}, {OpenPose, PinchPose, FistPose})
    \cup {Posed(OverFix, PinchPose)}

InitBuffer == InitWith(FALSE, DefaultSettings)

FrameBuffer == \E r \in BufferFrames : onResults(r)

NextBuffer ==
  \/ setupHandsReady
  \/ FrameBuffer
  \/ RebuildClick
  \/ autocompleteClick

SpecBuffer == InitBuffer /\ [][NextBuffer]_vars

(***************************************************************************)
(* SpecLayout: rebuilds of the key layout.  updateRects runs with or       *)
(* without the keyboard container and measures the grid at dx = 0 or at    *)
(* dx = 120; setKeyRects takes any record of rectangles, so the measurement *)
(* is also one of the first row alone, one of what a measurement can lack. *)
(* The hand is at Left, open or pinching, or away.                         *)
(***************************************************************************)
\* newRects holding the first row of the grid only
MeasureFirstRow(dx) == SubSeq(Measure(dx), 1, Len(ROWS[1]))

LayoutMeasurements ==
  {Measure(0), Measure(120), MeasureFirstRow(0), MeasureFirstRow(120)}

LayoutFrames == FramesOf({Left}, {OpenPose, PinchPose})

InitLayout == InitWith(FALSE, DefaultSettings)

FrameLayout == \E r \in LayoutFrames : onResults(r)
RebuildLayout ==
  \E container \in BOOLEAN, measured \in LayoutMeasurements :
    updateRects(container, measured)

NextLayout ==
  \/ setupHandsReady
  \/ FrameLayout
  \/ RebuildLayout

SpecLayout == InitLayout /\ [][NextLayout]_vars

(***************************************************************************)
(* Claims about the click edge detector, under SpecClick.                  *)
(***************************************************************************)
PressCount(events) ==
  Cardinality({i \in DOMAIN events : events[i] = "press"})

ReleaseCount(events) ==
  Cardinality({i \in DOMAIN events : events[i] = "release"})

\* C1 as stated: every run of clicking frames, whatever is hovered during it,
\* has emitted exactly one press.
C1_ExactlyOnePressPerRun ==
  run.len > 0 => PressCount(run.events) = 1

\* C1 as amended: a run of clicking frames emits exactly one press when a key
\* is hovered in its first frame and no press at all otherwise, whatever the
\* run's length and whatever is hovered in its later frames.
C1_OnePressPerRunStartedOnKey ==
  run.len > 0 =>
    PressCount(run.events) = IF run.first # Null THEN 1 ELSE 0

\* a run of several frames that started on a key and now hovers another one
C1_Witness ==
  /\ isPinching /\ run.len >= 3
  /\ run.first # Null /\ hoveredKey # Null /\ hoveredKey # run.first
  /\ PressCount(run.events) = 1

\* C2: a step emits a press only if it takes isPinching from false to true,
\* and then it emits one press; no step that finds isPinching true emits one,
\* not when the hovered key changes, nor when the press's own change of the
\* text re-creates handleKeyPress and re-runs the effect.
C2_PressOnlyOnRisingEdge ==
  [][last'.presses # <<>> =>
       ~isPinching /\ isPinching' /\ Len(last'.presses) = 1]_vars

\* clicking is held over a key that was not hovered when the run began, after
\* a key was typed, and the run has emitted no press
C2_Witness ==
  /\ isPinching /\ run.len >= 2
  /\ run.first = Null /\ hoveredKey # Null
  /\ text # <<>>
  /\ run.events = <<>>

\* C3: a step emits one release, and leaves no active key, exactly when it
\* takes isPinching from true to false (a frame without landmarks included) and
\* emits none otherwise; a run that began on a key has emitted, once it is
\* over, exactly a press and then a release.
C3_ReleaseOnFallingEdge ==
  /\ [][/\ last'.releases = IF isPinching /\ ~isPinching' THEN 1 ELSE 0
        /\ last'.releases > 0 => activeKey' = Null]_vars
  /\ [](~isPinching /\ run.len > 0 /\ run.first # Null
          => run.events = <<"press", "release">>)

\* clicking was [false, true, true, true, false] over a key, the last frame
\* being one without landmarks
C3_Witness ==
  /\ ~isPinching /\ run.len = 3 /\ run.first # Null
  /\ last.op = "frame" /\ ~last.hand /\ last.releases = 1
  /\ run.events = <<"press", "release">>

\* C5: after a frame without landmarks the mode is "wait", no key is hovered,
\* clicking is false and no cursor is displayed.
C5_NoHandResets ==
  (last.op = "frame" /\ ~last.hand) =>
     /\ gestureMode = "wait"
     /\ hoveredKey = Null
     /\ ~isPinching
     /\ cursor = NoPoint

\* the frame without landmarks ended a click that had pressed a key
C5_Witness ==
  /\ last.op = "frame" /\ ~last.hand /\ last.releases = 1
  /\ run.first # Null
  /\ cursorRef # NoPoint /\ hitTest(cursorRef, keyRects) # Null

(***************************************************************************)
(* Claims about the cursor filter, under SpecCursor.                       *)
(***************************************************************************)
\* C4: a step changes the accumulator only if it is a frame whose mode is
\* "move"; every frame of another mode (click, wait, no landmarks) leaves
\* cursorRef exactly as it was, wherever its index tip is.
C4_Parking ==
  [][cursorRef' # cursorRef =>
       last'.op = "frame" /\ gestureMode' = "move"]_vars

\* the second frame of a click whose index tip is away from the parked cursor
C4_Witness ==
  /\ last.op = "frame" /\ last.hand
  /\ gestureMode = "click" /\ run.len >= 2
  /\ cursorRef # NoPoint /\ rawCursor(last.lm) # cursorRef

(***************************************************************************)
(* Claims about the gesture classifier, under SpecClassify.                *)
(***************************************************************************)
\* the last step was a frame with a hand
HandFrame == last.op = "frame" /\ last.hand

\* C6: a frame whose landmarks pinch (thumb tip less than pinchThreshold from
\* the index tip) or show two fingers (index and middle extended, ring and
\* pinky not) leaves the mode "click" and clicking true, however many fingers
\* are extended.
C6_PinchOrTwoFingerClicks ==
  (HandFrame /\ (isPinchGesture(last.lm, settings)
                   \/ isTwoFingerGesture(last.lm, settings)))
    => gestureMode = "click" /\ isPinching

\* a pinch with all four fingers extended
C6_Witness ==
  /\ HandFrame
  /\ isPinchGesture(last.lm, settings)
  /\ extendedFingers(last.lm, settings) = 4
  /\ gestureMode = "click"

\* C7: a frame with at least three fingers extended and no pinch leaves the
\* mode "move" and clicking false; clicking is true exactly when the mode is
\* "click"; and a frame moves the accumulator to a new value exactly when its
\* mode is "move" (and the index tip is not where the accumulator is).
C7_OpenHandMoves ==
  /\ []((HandFrame /\ extendedFingers(last.lm, settings) >= 3
           /\ ~isPinchGesture(last.lm, settings))
          => gestureMode = "move" /\ ~isPinching)
  /\ [](isPinching <=> gestureMode = "click")
  /\ [][last'.op = "frame" =>
          (cursorRef' # cursorRef
             <=> /\ gestureMode' = "move"
                 /\ rawCursor(last'.lm) # cursorRef)]_vars

\* a frame with exactly three fingers extended moved the cursor
C7_Witness ==
  /\ HandFrame
  /\ extendedFingers(last.lm, settings) = 3
  /\ ~isPinchGesture(last.lm, settings)
  /\ gestureMode = "move" /\ cursorRef = rawCursor(last.lm)

(***************************************************************************)
(* Claims about ai-fix requests, under SpecFix.                            *)
(***************************************************************************)
\* C8: at most one correctText request and at most one autocompleteText
\* request is in flight.
C8_OneRequestPerKind ==
  /\ BagCardinality(fixPending) <= 1
  /\ BagCardinality(completePending) <= 1

\* C9: when a correctText request resolves with the service's text, the
\* buffer becomes that text, whatever was typed meanwhile; a press of ai-fix
\* issues a request with the buffer when the buffer is not empty, and none
\* when it is.
C9_FixReplacesBuffer ==
  /\ [][(last'.op = "fixed" /\ last'.ok) => text' = last'.ret]_vars
  /\ [][last'.presses = <<"ai-fix">> =>
          fixPending' = IF text = <<>> THEN fixPending
                        ELSE fixPending (+) SetToBag({text})]_vars
  /\ [](\A t \in BagToSet(fixPending) : t # <<>>)

\* a request sent with "a" resolved with "Z" after the most recent click
\* typed one more "a"
C9_Witness ==
  /\ last.op = "fixed" /\ last.ok
  /\ last.sent = <<"a">> /\ last.ret = <<"Z">> /\ text = <<"Z">>
  /\ run.first = "a" /\ fixPending = EmptyBag

\* C10: the resolution of a failed correctText request leaves the buffer as
\* it was just before the resolution.
C10_FailureKeepsBuffer ==
  [][(last'.op = "fixed" /\ ~last'.ok) => text' = text]_vars

(***************************************************************************)
(* Claims about autocomplete requests, under SpecComplete.                 *)
(***************************************************************************)
\* C11: when an autocompleteText request resolves with a non-empty
\* continuation, the buffer becomes the buffer of that moment followed by the
\* continuation; when it resolves with the empty string (the call failed or
\* answered nothing but blanks) the buffer is unchanged.
C11_CompletionAppends ==
  [][last'.op = "completed" =>
       text' = IF last'.ret # <<>> THEN text \o last'.ret ELSE text]_vars

\* a request sent with the empty buffer resolved with "Z" after "a" was typed
C11_Witness ==
  /\ last.op = "completed" /\ last.ok
  /\ last.sent = <<>> /\ last.ret = <<"Z">>
  /\ text = <<"a", "Z">>

(***************************************************************************)
(* Claims about camera acquisition, under SpecStartup.                     *)
(***************************************************************************)
\* C12: a failed camera acquisition makes the state ERROR, and only that
\* does; a step taken in ERROR is no frame and leaves the state ERROR; the
\* state becomes READY only from LOADING, by the step in which the stream is
\* acquired; and a frame is processed only in READY, so none before it.
C12_ErrorIsTerminal ==
  /\ [][last'.op = "failed" => appState' = "ERROR"]_vars
  /\ [][(appState' = "ERROR" /\ appState # "ERROR")
          => last'.op = "failed"]_vars
  /\ [][appState = "ERROR"
          => appState' = "ERROR" /\ last'.op # "frame"]_vars
  /\ [][(appState' = "READY" /\ appState # "READY")
          => appState = "LOADING" /\ last'.op = "ready"]_vars
  /\ [][last'.op = "frame"
          => appState = "READY" /\ appState' = "READY"]_vars
  /\ [](appState # "READY" => cursor = NoPoint /\ cursorRef = NoPoint
                                /\ run.len = 0 /\ text = <<>>)

\* the window was resized after the acquisition had failed
C12_Witness ==
  /\ appState = "ERROR" /\ last.op = "rects"
  /\ keyRects # mergeKeyRects(<<>>, Enumerated(Measure(0)))

(***************************************************************************)
(* Claims about the displayed cursor, under SpecClick.                     *)
(***************************************************************************)
\* C13: after a frame with a hand the displayed cursor is a copy of the
\* accumulator, so it is null (and no key is hovered) while the accumulator
\* has never been initialized.
C13_CursorIsAccumulator ==
  (last.op = "frame" /\ last.hand)
    => /\ cursor = cursorRef
       /\ cursorRef = NoPoint => hoveredKey = Null

(***************************************************************************)
(* Claims about the smoothing arithmetic, under SpecSmooth.                *)
(***************************************************************************)
\* v lies between a and b, ends included
Between(a, v, b) == (a <= v /\ v <= b) \/ (b <= v /\ v <= a)

\* one coordinate c of the accumulator became d by a step toward r by a
SmoothedToward(c, d, r, a) ==
  /\ (d - c) * SmoothingDen = (r - c) * a
  /\ Between(c, d, r)
  /\ c # r => d # c

\* C14: a MOVE frame that finds the accumulator uninitialized sets it to the
\* raw position; a MOVE frame that finds it at acc sets it to
\* acc + (raw - acc) * cursorSmoothing on each axis, which lies between acc
\* and raw and is nearer to raw than acc was; with smoothing 0.4 the
\* accumulator (0,0) and the raw position (100,0) give (40,0).
C14_Smoothing ==
  [][(last'.op = "frame" /\ last'.hand /\ gestureMode' = "move") =>
       LET raw == rawCursor(last'.lm)
       IN  /\ cursorRef = NoPoint => cursorRef' = raw
           /\ cursorRef # NoPoint =>
                /\ cursorRef'.some
                /\ SmoothedToward(cursorRef.x, cursorRef'.x, raw.x,
                                  settings.cursorSmoothing)
                /\ SmoothedToward(cursorRef.y, cursorRef'.y, raw.y,
                                  settings.cursorSmoothing)
           /\ (cursorRef = Point(0, 0) /\ raw = Point(Px(100), 0)
                 /\ settings.cursorSmoothing = 8)
                => cursorRef' = Point(Px(40), 0)]_vars

\* smoothing 0.4: the accumulator is at (40,0) after a MOVE frame at (100,0)
C14_Witness ==
  /\ last.op = "frame" /\ last.hand /\ gestureMode = "move"
  /\ settings.cursorSmoothing = 8
  /\ rawCursor(last.lm) = Point(Px(100), 0)
  /\ cursorRef = Point(Px(40), 0)

(***************************************************************************)
(* Claims about hit testing, under SpecHit.                                *)
(***************************************************************************)
\* the entries of keyRects whose rectangle contains the displayed cursor,
\* bounds included
Containing ==
  {i \in DOMAIN keyRects :
     /\ keyRects[i].left <= cursor.x /\ cursor.x <= keyRects[i].right
     /\ keyRects[i].top <= cursor.y /\ cursor.y <= keyRects[i].bottom}

\* C15: after a frame with a hand the hovered key is the first entry of the
\* layout, in the order Object.keys enumerates it (the digit keys ascending,
\* then the others as inserted), whose rectangle contains the displayed
\* cursor, bounds included, and null if there is none; so on the edge "1"
\* and "0" share when the keys abut the hovered key is "0".
C15_FirstClosedHit ==
  (last.op = "frame" /\ last.hand) =>
    /\ hoveredKey = IF Containing = {} THEN Null
                    ELSE keyRects[CHOOSE i \in Containing :
                                    \A j \in Containing : i <= j].id
    /\ \A i, j \in DOMAIN keyRects :
         (i < j /\ IsIndexKey(keyRects[j].id)) => IsIndexKey(keyRects[i].id)
    /\ (keyRects = mergeKeyRects(<<>>, MeasureAbutting)
          /\ cursor = Point(Px(100), Px(70))) => hoveredKey = "0"

\* the cursor is on the edge that "1" and "0" share, and on no other key
C15_Witness ==
  /\ last.op = "frame" /\ last.hand
  /\ cursor = Point(Px(100), Px(70))
  /\ Cardinality(Containing) = 2
  /\ hoveredKey = "0"

(***************************************************************************)
(* Claims about the dispatch table, under SpecKeys.                        *)
(***************************************************************************)
\* C16: a press of "backspace" leaves the buffer without its last character,
\* and leaves the empty buffer empty.
C16_BackspaceRemovesLast ==
  [][last'.presses = <<"backspace">> =>
       /\ Len(text') = IF text = <<>> THEN 0 ELSE Len(text) - 1
       /\ \A i \in 1 .. Len(text') : text'[i] = text[i]]_vars

\* "backspace" was pressed and left a character, so it found more than one
C16_Witness ==
  /\ last.presses = <<"backspace">>
  /\ Len(text) = 1

\* the character the dispatch table appends for a key, "" for none
Typed(keyId) ==
  CASE keyId = "a"     -> "a"
    [] keyId = "q"     -> "q"
    [] keyId = "1"     -> "1"
    [] keyId = "0"     -> "0"
    [] keyId = "space" -> " "
    [] keyId = "enter" -> "\n"
    [] OTHER           -> ""

\* C17: a press changes the buffer as the dispatch table says: the key of a
\* single character appends that character in lower case, "space" appends a
\* blank, "enter" a newline, "clear" empties the buffer, "shift" leaves it
\* unchanged; and dispatching a keyId that no key has would leave every
\* reachable buffer unchanged.
C17_DispatchTable ==
  /\ [][\A k \in KeyIds : last'.presses = <<k>> =>
          CASE Typed(k) # ""      -> text' = Append(text, Typed(k))
            [] k = "clear"        -> text' = <<>>
            [] k = "shift"        -> text' = text
            [] OTHER              -> TRUE]_vars
  /\ [](handleKeyPress("tab", text, PressState) = PressState)

\* the key labelled "A" was pressed after "1": the buffer ends in "1a"
C17_Witness ==
  /\ last.presses = <<"a">>
  /\ text = <<"1", "a">>

(***************************************************************************)
(* Claims about the ownership of the text buffer, under SpecBuffer.        *)
(***************************************************************************)
\* C18: a step changes the text buffer only if it emits a press event or is
\* the resolution of a correction or completion request, and a frame emits a
\* press only on a rising edge of clicking; so frames that move, wait, hold
\* a click, end a click or see no hand, and rebuilds of the key layout, leave
\* the buffer unchanged.
C18_BufferOwnedByDispatcher ==
  /\ [][text' # text =>
          \/ last'.op = "frame" /\ last'.presses # <<>>
          \/ last'.op \in {"fixed", "completed"}]_vars
  /\ [][(last'.op = "frame" /\ last'.presses # <<>>)
          => ~isPinching /\ isPinching']_vars
  /\ [][last'.op \in {"rects", "ready", "complete"} => text' = text]_vars

\* a frame ended a click while the buffer held text
C18_Witness ==
  /\ last.op = "frame" /\ last.releases = 1 /\ last.presses = <<>>
  /\ ~isPinching /\ text # <<>>

(***************************************************************************)
(* Claims about the accumulator while the hand is away, under SpecClick.   *)
(***************************************************************************)
\* C19: an initialized accumulator stays initialized; a frame without
\* landmarks makes the displayed cursor null and leaves the accumulator as
\* it is; and the first frame of a hand that came back, like every frame
\* that finds the accumulator initialized, displays the accumulator: smoothed
\* from its old position toward the raw position if the frame moves, at its
\* old position, where the keys are hit-tested, if the frame clicks.
C19_AccumulatorOutlivesHand ==
  /\ [][cursorRef # NoPoint => cursorRef' # NoPoint]_vars
  /\ [][(last'.op = "frame" /\ ~last'.hand)
          => cursor' = NoPoint /\ cursorRef' = cursorRef]_vars
  /\ [][(last'.op = "frame" /\ last'.hand /\ cursorRef # NoPoint) =>
          LET raw == rawCursor(last'.lm)
              a   == settings.cursorSmoothing
          IN  /\ cursor' = cursorRef'
              /\ gestureMode' = "move" =>
                   /\ (cursorRef'.x - cursorRef.x) * SmoothingDen
                        = (raw.x - cursorRef.x) * a
                   /\ (cursorRef'.y - cursorRef.y) * SmoothingDen
                        = (raw.y - cursorRef.y) * a
              /\ gestureMode' = "click" =>
                   /\ cursorRef' = cursorRef
                   /\ hoveredKey' = hitTest(cursorRef, keyRects)]_vars

\* the hand came back pinching at Right, over no key, and the frame clicked
\* on "a", where the accumulator had stayed
C19_Witness ==
  /\ last.op = "frame" /\ last.back
  /\ gestureMode = "click" /\ last.presses = <<"a">>
  /\ cursor = cursorRef
  /\ rawCursor(last.lm) # cursorRef
  /\ hitTest(rawCursor(last.lm), keyRects) = Null

(***************************************************************************)
(* Claims about the active key, under SpecClick.                           *)
(***************************************************************************)
\* C20: the active key is null whenever clicking is false; while it is not
\* null, clicking is true and the active key is the key that was hovered on
\* the rising edge of the current run, the one the run's only press carried.
C20_ActiveKeyIsPressedKey ==
  /\ [](~isPinching => activeKey = Null)
  /\ [](activeKey # Null =>
          /\ isPinching /\ run.len > 0
          /\ activeKey = run.first
          /\ PressCount(run.events) = 1)
  /\ [][last'.presses # <<>> => activeKey' = last'.presses[1]]_vars
  /\ [](isPinching => activeKey = run.first)

\* "a" is still active in the third frame of a click, though the layout was
\* rebuilt and no key is hovered any more
C20_Witness ==
  /\ isPinching /\ run.len >= 3
  /\ activeKey = "a" /\ hoveredKey = Null

(***************************************************************************)
(* Claims about rebuilds of the key layout, under SpecLayout.              *)
(***************************************************************************)
\* the rectangle the sequence of entries obj holds for id
RectOf(obj, id) == obj[CHOOSE i \in DOMAIN obj : obj[i].id = id]

IdsOf(obj) == {obj[i].id : i \in DOMAIN obj}

\* C21: a rebuild with the container gives every id it measured the measured
\* rectangle and leaves every other id of the layout with the rectangle it
\* had, so the ids of the layout are the old ones and the measured ones and
\* never get fewer; a rebuild without the container leaves the layout as it
\* is; and no other step changes the layout.
C21_RebuildMerges ==
  /\ [][(last'.op = "rects" /\ last'.ok) =>
          /\ IdsOf(keyRects') = IdsOf(keyRects) \cup IdsOf(last'.measured)
          /\ Len(keyRects') = Cardinality(IdsOf(keyRects'))
          /\ \A id \in IdsOf(last'.measured) :
               RectOf(keyRects', id) = RectOf(last'.measured, id)
          /\ \A id \in IdsOf(keyRects) \ IdsOf(last'.measured) :
               RectOf(keyRects', id) = RectOf(keyRects, id)]_vars
  /\ [][(last'.op = "rects" /\ ~last'.ok) => keyRects' = keyRects]_vars
  /\ [][last'.op # "rects" => keyRects' = keyRects]_vars
  /\ [][IdsOf(keyRects) \subseteq IdsOf(keyRects')]_vars

\* a rebuild measured the first row alone, at dx = 120: "1" has its new
\* rectangle and "a", which was not measured, the one it had at dx = 0
C21_Witness ==
  /\ last.op = "rects" /\ last.ok
  /\ last.measured = MeasureFirstRow(120)
  /\ RectOf(keyRects, "1") = RectOf(Measure(120), "1")
  /\ RectOf(keyRects, "a") = RectOf(Measure(0), "a")

(***************************************************************************)
(* Claims about the processing indicator, under SpecFix.                   *)
(***************************************************************************)
\* C22: isProcessingAI is true exactly in the states in which a correction
\* or completion request is in flight.
C22_IndicatorTracksRequests ==
  isProcessingAI <=> (fixPending # EmptyBag \/ completePending # EmptyBag)

====
